---- MODULE Spec2Model ----
(***************************************************************************)
(* A model of the PiratesOfMinecraft server scanner (search.py) and of the *)
(* launcher's reader of the discovered-servers store (launcher.py).        *)
(*                                                                         *)
(*   SpecAddr       the address generator: get_random_address and          *)
(*                  is_reserved_ip                                         *)
(*   Spec           the scan loop, its worker pool, the probes             *)
(*                  (query_server) and the JSON store file                 *)
(*   SpecReader     the same with the launcher's load_servers running as a *)
(*                  second process on the same file                        *)
(*   SpecInterrupt  the scan loop with the operator's interrupt            *)
(*   SpecLive       SpecInterrupt with fair scheduling of the threads      *)
(*   SpecRefresh    the launcher's refresh_server_data, called twice       *)
(*   SpecPools      the scan pool and the refresh pool, each with more     *)
(*                  probes submitted than it has threads                   *)
(*   SpecRestart    the scanner killed in the middle of a store write and  *)
(*                  started again                                          *)
(*   SpecProgress   the scan loop followed for three batches, with its     *)
(*                  progress lines                                         *)
(***************************************************************************)
EXTENDS Integers, Sequences, FiniteSets, TLC

VARIABLES
    \* ---- get_random_address (search.py:87-98)
    ga_pc,                \* "draw" | "check" | "returned"
    first, second, third, fourth,   \* the locals of the current draw
    ga_result,            \* the endpoint returned: [ip |-> <<a,b,c,d>>, port |-> p]
    \* ---- the scan loop, main thread (search.py:167-193)
    main_pc,              \* "gen" | "submit" | "wait" | "interrupted" | "stopped"
    batch_counter,
    total_servers_found,
    addresses,            \* the current batch's endpoints, a sequence
    submitted,            \* how many futures of the current batch were submitted
    batch_base,           \* history: the store's records when the batch was drawn
    progress_log,         \* the progress lines printed so far (search.py:192-193)
    \* ---- the probes, one per submitted future (search.py:101-164)
    task,                 \* task id -> the probe's position, locals and history
    \* ---- the store (discovered_servers.json) and its lock
    servers_file,         \* the file's content
    file_lock,            \* 0 = free, else the task id holding it
    committed,            \* history: the file as the last finished write left it
    persisted,            \* history: the records the last readable store held
    \* ---- the launcher process, load_servers (launcher.py:128-139)
    l_pc,                 \* "idle" | "open" | "loaded" | "exit1"
    l_seen,               \* history: the file content the read observed
    l_before, l_after,    \* history: the store before / after the append in progress
    l_data,               \* what load_servers returned
    \* ---- the operator's interrupt of the scan loop (search.py:195-196)
    summary,              \* the total the final summary line printed, -1 = none
    \* ---- the launcher's refresh_server_data (launcher.py:446-515)
    r_pc,                 \* "idle" | "submit" | "wait"
    r_call,               \* "none" | "first" | "second": the calls made so far
    servers_data,         \* servers_data["servers"], a sequence of records
    r_input,              \* history: servers_data["servers"] when the call began
    net,                  \* endpoint -> what the server answers to a status ping
    r_task,               \* index -> the position and locals of check_server
    r_submitted,          \* how many check_server futures were submitted
    counter_lock,         \* 0 = free, else the index holding it
    total_servers, responsive_servers, offline_servers,
    progress_completed    \* progress_dict["completed"]

ga_vars   == <<ga_pc, first, second, third, fourth, ga_result>>
main_vars == <<main_pc, batch_counter, total_servers_found, addresses, submitted,
               batch_base, progress_log>>
store_vars == <<servers_file, file_lock, committed, persisted>>
l_vars    == <<l_pc, l_seen, l_before, l_after, l_data>>
scan_vars == <<main_vars, task, store_vars, l_vars>>
r_vars    == <<r_pc, r_call, servers_data, r_input, net, r_task, r_submitted,
               counter_lock, total_servers, responsive_servers, offline_servers,
               progress_completed>>
vars      == <<ga_vars, scan_vars, summary, r_vars>>
\* what the scanner's and the reader's steps leave alone
other_vars == <<ga_vars, summary, r_vars>>

---------------------------------------------------------------------------
(* AddressGenerator                                                        *)

\* random.randint(1, 223) for the first octet, random.randint(0, 255) for the rest
FirstLo == 1
FirstHi == 223
OctetHi == 255
DefaultPort == 25565

\* random.randint(1, 222): the first octet never 223
FirstOctets_without_223 == FirstLo..(FirstHi - 1)

\* The first octet is drawn from its whole range.  The other octets are drawn
\* from the values at and next to every boundary the exclusion list names
\* (223 * 27 * 12 * 3 draws stand for the 223 * 2^24 the code can make).
FirstOctets  == FirstLo..FirstHi
SecondOctets == {0, 1, 15, 16, 17, 18, 19, 20, 31, 32, 50, 51, 52, 63, 64, 65,
                 87, 88, 89, 127, 128, 167, 168, 169, 253, 254, OctetHi}
ThirdOctets  == {0, 1, 2, 3, 98, 99, 100, 101, 112, 113, 114, OctetHi}
FourthOctets == {0, 1, OctetHi}

\* is_reserved_ip with the 172.16.0.0/12 test off by one (16 <= second <= 30)
is_reserved_ip_narrow172(a, b, c, d) ==
    \/ a = 10
    \/ a = 172 /\ 16 <= b /\ b <= 30
    \/ a = 192 /\ b = 168
    \/ a = 127
    \/ a = 169 /\ b = 254
    \/ a = 0
    \/ a = 100 /\ 64 <= b /\ b <= 127
    \/ a = 192 /\ b = 0 /\ c = 0
    \/ a = 192 /\ b = 0 /\ c = 2
    \/ a = 192 /\ b = 88 /\ c = 99
    \/ a = 198 /\ (b = 18 \/ b = 19)
    \/ a = 198 /\ b = 51 /\ c = 100
    \/ a = 203 /\ b = 0 /\ c = 113
    \/ 224 <= a /\ a <= 239
    \/ a = 255 /\ b = 255 /\ c = 255 /\ d = 255
    \/ 240 <= a /\ a <= 255

\* search.py:36-84, one disjunct per `if ...: return True`
is_reserved_ip(a, b, c, d) ==
    \/ a = 10                                   \* 10.0.0.0/8
    \/ a = 172 /\ 16 <= b /\ b <= 31            \* 172.16.0.0/12
    \/ a = 192 /\ b = 168                       \* 192.168.0.0/16
    \/ a = 127                                  \* 127.0.0.0/8
    \/ a = 169 /\ b = 254                       \* 169.254.0.0/16
    \/ a = 0                                    \* 0.0.0.0/8
    \/ a = 100 /\ 64 <= b /\ b <= 127           \* 100.64.0.0/10
    \/ a = 192 /\ b = 0 /\ c = 0                \* 192.0.0.0/24
    \/ a = 192 /\ b = 0 /\ c = 2                \* 192.0.2.0/24
    \/ a = 192 /\ b = 88 /\ c = 99              \* 192.88.99.0/24
    \/ a = 198 /\ (b = 18 \/ b = 19)            \* 198.18.0.0/15
    \/ a = 198 /\ b = 51 /\ c = 100             \* 198.51.100.0/24
    \/ a = 203 /\ b = 0 /\ c = 113              \* 203.0.113.0/24
    \/ 224 <= a /\ a <= 239                     \* 224.0.0.0/4
    \/ a = 255 /\ b = 255 /\ c = 255 /\ d = 255 \* broadcast
    \/ 240 <= a /\ a <= 255                     \* 240.0.0.0/4

NoEndpoint == [ip |-> <<0, 0, 0, 0>>, port |-> 0]

GaInit ==
    /\ ga_pc = "draw"
    /\ first = 0 /\ second = 0 /\ third = 0 /\ fourth = 0
    /\ ga_result = NoEndpoint

\* search.py:90-93: the four random.randint draws of one loop iteration
GaDraw ==
    /\ ga_pc = "draw"
    /\ first'  \in FirstOctets
    /\ second' \in SecondOctets
    /\ third'  \in ThirdOctets
    /\ fourth' \in FourthOctets
    /\ ga_pc' = "check"
    /\ UNCHANGED ga_result

\* search.py:95 false: the while loop goes round.  The rejected octets are dead
\* (each is reassigned before it is read again), so they are cleared here.
GaRetry ==
    /\ ga_pc = "check"
    /\ is_reserved_ip(first, second, third, fourth)
    /\ ga_pc' = "draw"
    /\ first' = 0 /\ second' = 0 /\ third' = 0 /\ fourth' = 0
    /\ UNCHANGED ga_result

\* search.py:95-98: the endpoint "a.b.c.d:25565" is returned; the locals die
GaReturn ==
    /\ ga_pc = "check"
    /\ ~is_reserved_ip(first, second, third, fourth)
    /\ ga_result' = [ip |-> <<first, second, third, fourth>>, port |-> DefaultPort]
    /\ ga_pc' = "returned"
    /\ first' = 0 /\ second' = 0 /\ third' = 0 /\ fourth' = 0

\* search.py:169: the list comprehension calls get_random_address again
GaCall ==
    /\ ga_pc = "returned"
    /\ ga_pc' = "draw"
    /\ ga_result' = NoEndpoint
    /\ UNCHANGED <<first, second, third, fourth>>

get_random_address == GaDraw \/ GaRetry \/ GaReturn \/ GaCall

---------------------------------------------------------------------------
(* The store file and load_or_create_json                                  *)

\* The records a probe can write.  Of a record's fields the model keeps the
\* address (the endpoint) and the protocol that answered ("type").
NoInfo        == [address |-> 0, type |-> "none"]
StatusInfo(a) == [address |-> a, type |-> "status"]
QueryInfo(a)  == [address |-> a, type |-> "query"]

\* The content of discovered_servers.json: absent, text that is no JSON
\* document (empty or cut short), or the JSON object json.dump wrote.
Missing    == [kind |-> "missing", servers |-> <<>>, total_count |-> 0]
Corrupt    == [kind |-> "corrupt", servers |-> <<>>, total_count |-> 0]
Json(data) == [kind |-> "json", servers |-> data.servers,
               total_count |-> data.total_count]

EmptyStore == [servers |-> <<>>, total_count |-> 0]
NoData     == [servers |-> <<>>, total_count |-> -1]

\* search.py:27 and launcher.py:130, os.path.exists(SERVERS_FILE)
os_path_exists(f) == f.kind # "missing"

\* json.load(f) raises JSONDecodeError unless the text is a JSON document
json_load_ok(f) == f.kind = "json"
json_load(f)    == [servers |-> f.servers, total_count |-> f.total_count]

\* search.py:25-33
load_or_create_json(f) ==
    IF os_path_exists(f)
    THEN IF json_load_ok(f) THEN json_load(f) ELSE EmptyStore
    ELSE EmptyStore

\* the append without `data["total_count"] = len(data["servers"])`
AppendRecord_stale_count(data, info) ==
    [servers |-> Append(data.servers, info),
     total_count |-> data.total_count]

\* search.py:145-146: data["servers"].append(server_info); total_count = len
AppendRecord(data, info) ==
    [servers |-> Append(data.servers, info),
     total_count |-> Len(data.servers) + 1]

---------------------------------------------------------------------------
(* ScanOrchestrator: scan_batch and the scan loop                          *)

BatchSize    == 2     \* addresses per batch (1000 in search.py:167)
MaxWorkers   == 2     \* threads of the pool (200 in search.py:171)
MaxBatches   == 2     \* the while True loop is followed for this many batches
ProgressBatches == 3  \* batches followed when the progress lines are watched
ProgressEvery == 3    \* `if batch_counter % 3 == 0` (search.py:192)
NumEndpoints == 2     \* distinct endpoints the generator hands out
ReaderBatches == 1    \* batches followed while the launcher reads the store

Endpoints == 1..NumEndpoints
LongestRun == IF ProgressBatches > MaxBatches THEN ProgressBatches ELSE MaxBatches
TaskIds   == 1..(LongestRun * BatchSize)
BatchOf(t) == ((t - 1) \div BatchSize) + 1
TasksOf(b) == {t \in TaskIds : BatchOf(t) = b}

\* What a probe prints on the console: search.py:110, 139 and 151-160. The
\* outer handler (search.py:163-164) prints nothing.
StatusError == "Error querying status"
QueryError  == "Error querying query"
FoundAlert  == "SERVER FOUND"

\* A future that was never submitted, and one whose probe has returned and
\* whose result has been read (the futures list is dropped with the batch).
NoTask ==
    [pc |-> "none", address |-> 0, server_info |-> NoInfo, data |-> NoData,
     loaded |-> Missing, result |-> "none",
     status_calls |-> 0, query_calls |-> 0, status |-> "none", query |-> "none",
     console |-> <<>>]
Collected == [NoTask EXCEPT !.pc = "collected"]

Running(t) == task[t].pc \in {"lookup", "status", "query", "lock", "open",
                              "dump", "print"}
Returned(t) == task[t].pc \in {"done", "collected"}

\* concurrent.futures.wait(..., FIRST_COMPLETED) with no executor shutdown
BatchDrained_first_completed(b) == \E t \in TasksOf(b) : Returned(t)

\* search.py:171-173: wait(futures, ALL_COMPLETED), then the with block's exit
\* (executor.shutdown(wait=True)) returns only when every future is done
BatchDrained(b) == \A t \in TasksOf(b) : Returned(t)

\* search.py:175: sum(1 for f in futures if f.result())
CountTrue(b) == Cardinality({t \in TasksOf(b) : task[t].result = "True"})

ScanInit ==
    /\ main_pc = "gen"
    /\ batch_counter = 0
    /\ total_servers_found = 0
    /\ addresses = <<>>
    /\ submitted = 0
    /\ task = [t \in TaskIds |-> NoTask]
    /\ servers_file \in {Missing, Corrupt,
                         Json([servers |-> <<StatusInfo(1)>>, total_count |-> 1])}
    /\ batch_base = <<>>
    /\ progress_log = <<>>
    /\ file_lock = 0
    /\ committed = servers_file
    /\ persisted = load_or_create_json(servers_file).servers
    /\ l_pc = "idle"
    /\ l_seen = Missing /\ l_before = Missing /\ l_after = Missing
    /\ l_data = NoData

\* search.py:185 and 169: the loop goes round (followed for n batches) and
\* addresses = [get_random_address() for _ in range(batch_size)]
GenerateBatchUpTo(n) ==
    /\ main_pc = "gen"
    /\ batch_counter < n
    /\ addresses' \in [1..BatchSize -> Endpoints]
    /\ submitted' = 0
    /\ batch_base' = load_or_create_json(servers_file).servers
    /\ main_pc' = "submit"
    /\ UNCHANGED <<batch_counter, total_servers_found, progress_log, task,
                   store_vars, l_vars>>

\* search.py:172: one executor.submit(query_server, address)
Submit ==
    /\ main_pc = "submit"
    /\ LET i == submitted + 1
           t == batch_counter * BatchSize + i
       IN /\ task' = [task EXCEPT ![t] = [NoTask EXCEPT !.pc = "queued",
                                                        !.address = addresses[i]]]
          /\ submitted' = i
          /\ main_pc' = IF i = BatchSize THEN "wait" ELSE "submit"
    /\ UNCHANGED <<batch_counter, total_servers_found, addresses, batch_base,
                   progress_log, store_vars, l_vars>>

\* a progress line after every batch
ProgressDue_every_batch(n) == TRUE

\* search.py:192: if batch_counter % 3 == 0
ProgressDue(n) == n % ProgressEvery = 0

\* search.py:193: "Processed {batch_counter * 1000} addresses... Found
\* {total_servers_found} servers so far"; 1000 is the size of every batch
ProgressLine(n, found) == [addresses |-> n * BatchSize, found |-> found]

\* search.py:173-175 and 187-193: the batch has drained; its successes are
\* summed into total_servers_found, batch_counter is incremented and, every
\* third batch, the progress line is printed
FinishBatch ==
    /\ main_pc = "wait"
    /\ BatchDrained(batch_counter + 1)
    /\ total_servers_found' = total_servers_found + CountTrue(batch_counter + 1)
    /\ batch_counter' = batch_counter + 1
    /\ progress_log' = IF ProgressDue(batch_counter')
                       THEN Append(progress_log,
                                   ProgressLine(batch_counter', total_servers_found'))
                       ELSE progress_log
    /\ task' = [t \in TaskIds |->
                   IF BatchOf(t) = batch_counter + 1 /\ Returned(t)
                   THEN Collected ELSE task[t]]
    /\ addresses' = <<>>
    /\ submitted' = 0
    /\ main_pc' = "gen"
    /\ UNCHANGED <<batch_base, store_vars, l_vars>>

GenerateBatch == GenerateBatchUpTo(MaxBatches)

scan_batch == GenerateBatch \/ Submit \/ FinishBatch

---------------------------------------------------------------------------
(* ProtocolProbe and the append to the store: query_server                 *)

Set(t, r) == [task EXCEPT ![t] = r]

\* The pool runs at most MaxWorkers probes at once and takes queued work in
\* submission order (search.py:171, ThreadPoolExecutor(max_workers=200)).
NumRunning == Cardinality({t \in TaskIds : Running(t)})
NextQueued(t) ==
    /\ task[t].pc = "queued"
    /\ \A u \in TaskIds : u < t => task[u].pc # "queued"

\* a pool that starts a thread for every submitted future
PoolHasRoom_unbounded(running, max_workers) == TRUE

\* search.py:171 and launcher.py:504: ThreadPoolExecutor(max_workers=n) runs at
\* most n futures at once
PoolHasRoom(running, max_workers) == running < max_workers

\* A worker thread of a pool of n takes the probe off the queue and enters
\* query_server
StartIn(t, n) ==
    /\ NextQueued(t)
    /\ PoolHasRoom(NumRunning, n)
    /\ task' = Set(t, [task[t] EXCEPT !.pc = "lookup"])
    /\ UNCHANGED <<main_vars, store_vars, l_vars>>

Start(t) == StartIn(t, MaxWorkers)

\* query_server without the outer handler: the exception reaches the future
ReturnFalse_raises(r) ==
    [r EXCEPT !.pc = "done", !.result = "raised", !.data = NoData, !.loaded = Missing]

\* search.py:140 and 163-164: `return False`; the probe's locals die with it
ReturnFalse(r) ==
    [r EXCEPT !.pc = "done", !.result = "False", !.data = NoData, !.loaded = Missing]

\* search.py:104: JavaServer.lookup(address, timeout=1); it may raise
Lookup(t) ==
    /\ task[t].pc = "lookup"
    /\ \E ok \in BOOLEAN :
          task' = Set(t, IF ok THEN [task[t] EXCEPT !.pc = "status"]
                               ELSE ReturnFalse(task[t]))
    /\ UNCHANGED <<main_vars, store_vars, l_vars>>

\* a status failure handled by calling server.status() again
AfterStatus_retry(ok) == IF ok THEN "lock" ELSE "status"

\* search.py:105-122: where the probe goes after server.status()
AfterStatus(ok) == IF ok THEN "lock" ELSE "query"

\* search.py:107-121: server.status() and the record built from its answer
Status(t) ==
    /\ task[t].pc = "status"
    /\ \E ok \in BOOLEAN :
          task' = Set(t, [task[t] EXCEPT
                            !.pc = AfterStatus(ok),
                            !.status_calls = @ + 1,
                            !.status = IF ok THEN "ok" ELSE "fail",
                            !.console = IF ok THEN @ ELSE Append(@, StatusError),
                            !.server_info = IF ok THEN StatusInfo(task[t].address)
                                                  ELSE @])
    /\ UNCHANGED <<main_vars, store_vars, l_vars>>

\* a failed query that falls through to the store write (no `return False`)
AfterQuery_fallthrough(ok) == "lock"

\* search.py:122-140: where the probe goes after server.query()
AfterQuery(ok) == IF ok THEN "lock" ELSE "done"

\* search.py:122-140: server.query(); when it fails too the probe returns False
Query(t) ==
    /\ task[t].pc = "query"
    /\ \E ok \in BOOLEAN :
          task' = Set(t, [task[t] EXCEPT
                            !.pc = AfterQuery(ok),
                            !.result = IF AfterQuery(ok) = "done" THEN "False" ELSE @,
                            !.query_calls = @ + 1,
                            !.query = IF ok THEN "ok" ELSE "fail",
                            !.console = IF ok THEN @ ELSE Append(@, QueryError),
                            !.server_info = IF ok THEN QueryInfo(task[t].address)
                                                  ELSE @])
    /\ UNCHANGED <<main_vars, store_vars, l_vars>>

\* a `with file_lock:` that does not exclude
CanAcquire_unlocked == TRUE

\* search.py:143: `with file_lock:` blocks until the lock is free
CanAcquire == file_lock = 0

\* a lock that stays held when the block is left by an exception
Released_leak(t) == file_lock

\* search.py:143: leaving `with file_lock:`, by its end or by an exception,
\* releases the lock
Released(t) == IF file_lock = t THEN 0 ELSE file_lock

\* search.py:143-146: the lock is taken, the store is loaded and the record
\* is appended to the loaded copy; a read that raises anything but
\* JSONDecodeError leaves the block and ends the probe in the outer handler
AcquireAndLoad(t) ==
    /\ task[t].pc = "lock"
    /\ CanAcquire
    /\ \E ok \in BOOLEAN :
          IF ok
          THEN /\ file_lock' = t
               /\ task' = Set(t, [task[t] EXCEPT
                                    !.pc = "open",
                                    !.loaded = servers_file,
                                    !.data = AppendRecord(load_or_create_json(servers_file),
                                                          task[t].server_info)])
          ELSE /\ task' = Set(t, ReturnFalse(task[t]))
               /\ UNCHANGED file_lock
    /\ UNCHANGED <<main_vars, servers_file, committed, persisted, l_vars>>

\* search.py:147: open(SERVERS_FILE, "w") truncates the file to nothing, or
\* raises (the file stays as it was), which releases the lock and ends the
\* probe in the outer handler
OpenForWrite(t) ==
    /\ task[t].pc = "open"
    /\ \E ok \in BOOLEAN :
          IF ok
          THEN /\ servers_file' = Corrupt
               /\ task' = Set(t, [task[t] EXCEPT !.pc = "dump"])
               /\ UNCHANGED <<file_lock, committed, persisted>>
          ELSE /\ task' = Set(t, ReturnFalse(task[t]))
               /\ file_lock' = Released(t)
               /\ UNCHANGED <<servers_file, committed, persisted>>
    /\ UNCHANGED <<main_vars, l_vars>>

\* search.py:148: json.dump(data, f, indent=2), the file is closed and the lock
\* released; when the write raises the file keeps what reached it, cut short
Dump(t) ==
    /\ task[t].pc = "dump"
    /\ \E ok \in BOOLEAN :
          /\ servers_file' = IF ok THEN Json(task[t].data) ELSE Corrupt
          /\ task' = Set(t, IF ok THEN [task[t] EXCEPT !.pc = "print"]
                                  ELSE ReturnFalse(task[t]))
    /\ committed' = servers_file'
    /\ persisted' = IF json_load_ok(servers_file') THEN servers_file'.servers
                                                   ELSE persisted
    /\ file_lock' = Released(t)
    /\ UNCHANGED <<main_vars, l_vars>>

\* search.py:150-161: the alert is printed, then `return True`; the locals die
ReturnsTrueAt == {"print"}

ReturnTrue(t) ==
    /\ task[t].pc \in ReturnsTrueAt
    /\ task' = Set(t, [task[t] EXCEPT !.pc = "done", !.result = "True",
                                       !.data = NoData, !.loaded = Missing,
                                       !.console = Append(@, FoundAlert)])
    /\ UNCHANGED <<main_vars, store_vars, l_vars>>

query_server(t) ==
    \/ Start(t) \/ Lookup(t) \/ Status(t) \/ Query(t)
    \/ AcquireAndLoad(t) \/ OpenForWrite(t) \/ Dump(t) \/ ReturnTrue(t)

---------------------------------------------------------------------------
(* The operator's interrupt of the scan loop                               *)

\* an executor left with shutdown(wait=False)
ShutdownDone_no_wait == TRUE

\* search.py:171: leaving the with block, by an exception too, calls
\* executor.shutdown(wait=True): the queued probes still run and the main
\* thread waits until every worker thread has finished
ShutdownDone == \A t \in TaskIds : task[t].pc \notin {"queued"} /\ ~Running(t)

\* KeyboardInterrupt is raised in the main thread, wherever it is: generating
\* addresses, submitting, waiting for the futures or summing their results
Interrupt ==
    /\ main_pc \in {"gen", "submit", "wait"}
    /\ main_pc' = "interrupted"
    /\ UNCHANGED <<batch_counter, total_servers_found, addresses, submitted,
                   batch_base, progress_log, task, store_vars, l_vars, summary>>

\* search.py:195-196: "Search stopped. Found {total_servers_found} servers in
\* total."
SummaryTotal == total_servers_found

\* search.py:195-196: the exception has left scan_batch (through the with
\* block's exit, if it was inside) and the handler prints the summary; the
\* script ends
PrintSummary ==
    /\ main_pc = "interrupted"
    /\ ShutdownDone
    /\ summary' = SummaryTotal
    /\ main_pc' = "stopped"
    /\ UNCHANGED <<batch_counter, total_servers_found, addresses, submitted,
                   batch_base, progress_log, task, store_vars, l_vars>>

---------------------------------------------------------------------------
(* An abrupt stop of the scanner in the middle of a store write            *)

\* The process is killed (or the machine loses power) after open(..., "w")
\* has truncated the file and before json.dump has written it (search.py:
\* 147-148): the file stays as the write left it; the operator starts the
\* script again, which begins as at search.py:181-183 with no thread, no lock
\* held and its counters at 0.
KillDuringWrite ==
    /\ \E t \in TaskIds : task[t].pc = "dump"
    /\ main_pc' = "gen"
    /\ batch_counter' = 0
    /\ total_servers_found' = 0
    /\ addresses' = <<>>
    /\ submitted' = 0
    /\ batch_base' = <<>>
    /\ progress_log' = <<>>
    /\ task' = [t \in TaskIds |-> NoTask]
    /\ file_lock' = 0
    /\ committed' = servers_file
    /\ UNCHANGED <<servers_file, persisted, l_vars>>

---------------------------------------------------------------------------
(* The launcher process: load_servers                                      *)

\* load_servers returning the empty store when the file does not parse
load_servers_on_error_empty == "loaded"

\* launcher.py:130-132 and 137-139: the message is printed, then sys.exit(1)
load_servers_on_error == "exit1"

\* The append in progress, if any, seen from outside the scanner: the store
\* as it will be once the writer's json.dump has finished.
StoreAfterWrite ==
    IF \E t \in TaskIds : task[t].pc = "dump"
    THEN Json(task[CHOOSE t \in TaskIds : task[t].pc = "dump"].data)
    ELSE servers_file

\* launcher.py:130-132
LoadExists ==
    /\ l_pc = "idle"
    /\ IF os_path_exists(servers_file)
       THEN /\ l_pc' = "open"
            /\ UNCHANGED <<l_seen, l_before, l_after, l_data>>
       ELSE /\ l_pc' = load_servers_on_error
            /\ l_seen' = servers_file
            /\ l_before' = committed
            /\ l_after' = StoreAfterWrite
            /\ l_data' = IF load_servers_on_error = "loaded" THEN EmptyStore
                                                             ELSE NoData
    /\ UNCHANGED <<main_vars, task, store_vars>>

\* launcher.py:134-139: the file is opened, read and parsed
LoadRead ==
    /\ l_pc = "open"
    /\ l_seen' = servers_file
    /\ l_before' = committed
    /\ l_after' = StoreAfterWrite
    /\ IF json_load_ok(servers_file)
       THEN /\ l_pc' = "loaded"
            /\ l_data' = json_load(servers_file)
       ELSE /\ l_pc' = load_servers_on_error
            /\ l_data' = IF load_servers_on_error = "loaded" THEN EmptyStore
                                                             ELSE NoData
    /\ UNCHANGED <<main_vars, task, store_vars>>

\* launcher.py:523 and 732: the menu loop calls load_servers again
LoadAgain ==
    /\ l_pc = "loaded"
    /\ l_pc' = "idle"
    /\ l_seen' = Missing /\ l_before' = Missing /\ l_after' = Missing
    /\ l_data' = NoData
    /\ UNCHANGED <<main_vars, task, store_vars>>

load_servers == LoadExists \/ LoadRead \/ LoadAgain

---------------------------------------------------------------------------
(* The launcher's refresh of the loaded store: refresh_server_data         *)

NumServers     == 3   \* records in the loaded store
RefreshWorkers == 2   \* threads of the pool (20 in launcher.py:504)
PoolWorkers    == 1   \* threads of a scan pool smaller than its batch

\* The endpoints the loaded records name; two records may name the same one.
RefreshEndpoints == {1, 2, 3}

\* A record as the scanner stored it (search.py:108-116).
StoredRecord(a) ==
    [address |-> a, players_online |-> 5, players_max |-> 20,
     version |-> "1.20.1", description |-> "stored motd",
     timestamp |-> "scan time"]

\* What a server answers now: nothing, or a status whose counts, version and
\* description differ from the stored ones.
Offline == [up |-> FALSE, players_online |-> 0, players_max |-> 0]
Online(n, m) == [up |-> TRUE, players_online |-> n, players_max |-> m]
Answers == {Offline, Online(3, 20), Online(9, 30)}

\* launcher.py:428-443: the status record, or {"online": False} on any failure
get_server_status(answer) ==
    IF answer.up
    THEN [online |-> "True", players_online |-> answer.players_online,
          players_max |-> answer.players_max,
          version |-> "1.21", description |-> "live motd"]
    ELSE [online |-> "False", players_online |-> 0, players_max |-> 0,
          version |-> "", description |-> ""]

NoStatus == [online |-> "none", players_online |-> 0, players_max |-> 0,
             version |-> "", description |-> ""]
NoCheck  == [pc |-> "none", status |-> NoStatus]

\* check_server also taking the version and description of the live status
UpdateRecord_all_fields(server, status) ==
    IF status.online = "True"
    THEN [server EXCEPT !.players_online = status.players_online,
                        !.players_max = status.players_max,
                        !.version = status.version,
                        !.description = status.description]
    ELSE [server EXCEPT !.players_online = 0,
                        !.players_max = 0,
                        !.version = status.version,
                        !.description = status.description]

\* check_server leaving players_max as stored
UpdateRecord_keep_max(server, status) ==
    IF status.online = "True"
    THEN [server EXCEPT !.players_online = status.players_online]
    ELSE [server EXCEPT !.players_online = 0]

\* launcher.py:471-478: what check_server assigns to the record
UpdateRecord(server, status) ==
    IF status.online = "True"
    THEN [server EXCEPT !.players_online = status.players_online,
                        !.players_max = status.players_max]
    ELSE [server EXCEPT !.players_online = 0]

Front(seq) == SubSeq(seq, 1, Len(seq) - 1)
Last(seq)  == seq[Len(seq)]

\* r goes behind every record with at least as many players
RECURSIVE InsertDescending(_, _)
InsertDescending(r, seq) ==
    IF seq = <<>> THEN <<r>>
    ELSE IF Last(seq).players_online >= r.players_online
         THEN Append(seq, r)
         ELSE Append(InsertDescending(r, Front(seq)), Last(seq))

RECURSIVE SortDescending(_)
SortDescending(seq) ==
    IF seq = <<>> THEN <<>>
    ELSE InsertDescending(Last(seq), SortDescending(Front(seq)))

RECURSIVE Reverse(_)
Reverse(seq) == IF seq = <<>> THEN <<>> ELSE Append(Reverse(Tail(seq)), Head(seq))

\* the sort keeping only the servers with players online
SortByPlayers_online_only(seq) ==
    SelectSeq(SortDescending(seq), LAMBDA r : r.players_online > 0)

\* sorted(...) without reverse=True: fewest players first
SortByPlayers_ascending(seq) == Reverse(SortDescending(Reverse(seq)))

\* sorted(...) ascending, then reversed: records with equal counts swap places
SortByPlayers_then_reversed(seq) == SortDescending(Reverse(seq))

\* launcher.py:512: sorted(servers, key=players_online, reverse=True); the sort
\* is stable, records with equal counts keep their order
SortByPlayers(seq) == SortDescending(seq)

RefreshIndices == 1..NumServers

\* The launcher has loaded a store of NumServers records.
RefreshInit ==
    /\ r_pc = "idle"
    /\ r_call = "none"
    /\ servers_data \in [RefreshIndices -> {StoredRecord(a) : a \in RefreshEndpoints}]
    /\ r_input = servers_data
    /\ net \in [RefreshEndpoints -> Answers]
    /\ r_task = [i \in RefreshIndices |-> NoCheck]
    /\ r_submitted = 0
    /\ counter_lock = 0
    /\ total_servers = 0
    /\ responsive_servers = 0
    /\ offline_servers = 0
    /\ progress_completed = 0

\* The launcher is not running.
RefreshOff ==
    /\ r_pc = "off"
    /\ r_call = "none"
    /\ servers_data = <<>>
    /\ r_input = <<>>
    /\ net = [a \in RefreshEndpoints |-> Offline]
    /\ r_task = [i \in RefreshIndices |-> NoCheck]
    /\ r_submitted = 0
    /\ counter_lock = 0
    /\ total_servers = 0
    /\ responsive_servers = 0
    /\ offline_servers = 0
    /\ progress_completed = 0

NextCall(c) == IF c = "none" THEN "first" ELSE "second"

\* launcher.py:446-460 (called at 531 and 739): the counters are set up
RefreshCall ==
    /\ r_pc = "idle"
    /\ r_call # "second"
    /\ r_call' = NextCall(r_call)
    /\ r_input' = servers_data
    /\ total_servers' = Len(servers_data)
    /\ responsive_servers' = 0
    /\ offline_servers' = 0
    /\ progress_completed' = 0
    /\ counter_lock' = 0
    /\ r_task' = [i \in RefreshIndices |-> NoCheck]
    /\ r_submitted' = 0
    /\ r_pc' = "submit"
    /\ UNCHANGED <<servers_data, net>>

\* launcher.py:506: one executor.submit(check_server, server)
RefreshSubmit ==
    /\ r_pc = "submit"
    /\ LET i == r_submitted + 1
       IN /\ r_task' = [r_task EXCEPT ![i] = [NoCheck EXCEPT !.pc = "queued"]]
          /\ r_submitted' = i
          /\ r_pc' = IF i = Len(servers_data) THEN "wait" ELSE "submit"
    /\ UNCHANGED <<r_call, servers_data, r_input, net, counter_lock, total_servers,
                   responsive_servers, offline_servers, progress_completed>>

CheckRunning(i) == r_task[i].pc \in {"probe", "update", "progress"}
NumChecksRunning == Cardinality({i \in RefreshIndices : CheckRunning(i)})

\* A worker thread of the refresh pool takes the next queued check_server
CheckStart(i) ==
    /\ r_task[i].pc = "queued"
    /\ \A j \in RefreshIndices : j < i => r_task[j].pc # "queued"
    /\ PoolHasRoom(NumChecksRunning, RefreshWorkers)
    /\ r_task' = [r_task EXCEPT ![i].pc = "probe"]
    /\ UNCHANGED <<r_pc, r_call, servers_data, r_input, net, r_submitted,
                   counter_lock, total_servers, responsive_servers,
                   offline_servers, progress_completed>>

\* launcher.py:465-468: status = get_server_status(server_address)
CheckProbe(i) ==
    /\ r_task[i].pc = "probe"
    /\ r_task' = [r_task EXCEPT
                    ![i].pc = "update",
                    ![i].status = get_server_status(net[servers_data[i].address])]
    /\ UNCHANGED <<r_pc, r_call, servers_data, r_input, net, r_submitted,
                   counter_lock, total_servers, responsive_servers,
                   offline_servers, progress_completed>>

\* a `with counter_lock:` that does not exclude
CounterLockFree_unlocked == TRUE

\* launcher.py:470: `with counter_lock:` blocks until the lock is free
CounterLockFree == counter_lock = 0

\* launcher.py:470-478: counter_lock is taken, the record is updated in place
\* and the probe is counted as responsive or offline
CheckUpdate(i) ==
    /\ r_task[i].pc = "update"
    /\ CounterLockFree
    /\ counter_lock' = i
    /\ servers_data' = [servers_data EXCEPT
                          ![i] = UpdateRecord(servers_data[i], r_task[i].status)]
    /\ IF r_task[i].status.online = "True"
       THEN /\ responsive_servers' = responsive_servers + 1
            /\ UNCHANGED offline_servers
       ELSE /\ offline_servers' = offline_servers + 1
            /\ UNCHANGED responsive_servers
    /\ r_task' = [r_task EXCEPT ![i].pc = "progress"]
    /\ UNCHANGED <<r_pc, r_call, r_input, net, r_submitted, total_servers,
                   progress_completed>>

\* launcher.py:480-487: progress_dict["completed"] += 1, the progress bar is
\* updated and counter_lock released
CheckProgress(i) ==
    /\ r_task[i].pc = "progress"
    /\ progress_completed' = progress_completed + 1
    /\ counter_lock' = 0
    /\ r_task' = [r_task EXCEPT ![i].pc = "done"]
    /\ UNCHANGED <<r_pc, r_call, servers_data, r_input, net, r_submitted,
                   total_servers, responsive_servers, offline_servers>>

\* launcher.py:509-515: every future is done; the list is sorted and returned
RefreshReturn ==
    /\ r_pc = "wait"
    /\ \A i \in 1..Len(servers_data) : r_task[i].pc = "done"
    /\ servers_data' = SortByPlayers(servers_data)
    /\ r_pc' = "idle"
    /\ UNCHANGED <<r_call, r_input, net, r_task, r_submitted, counter_lock,
                   total_servers, responsive_servers, offline_servers,
                   progress_completed>>

refresh_server_data ==
    \/ RefreshCall \/ RefreshSubmit \/ RefreshReturn
    \/ \E i \in RefreshIndices :
          CheckStart(i) \/ CheckProbe(i) \/ CheckUpdate(i) \/ CheckProgress(i)

---------------------------------------------------------------------------
(* Specifications                                                          *)

Init == GaInit /\ ScanInit /\ summary = -1 /\ RefreshOff

\* The scan loop and its probes.
Next ==
    \/ GenerateBatch /\ UNCHANGED other_vars
    \/ Submit /\ UNCHANGED other_vars
    \/ FinishBatch /\ UNCHANGED other_vars
    \/ \E t \in TaskIds : Start(t) /\ UNCHANGED other_vars
    \/ \E t \in TaskIds : Lookup(t) /\ UNCHANGED other_vars
    \/ \E t \in TaskIds : Status(t) /\ UNCHANGED other_vars
    \/ \E t \in TaskIds : Query(t) /\ UNCHANGED other_vars
    \/ \E t \in TaskIds : AcquireAndLoad(t) /\ UNCHANGED other_vars
    \/ \E t \in TaskIds : OpenForWrite(t) /\ UNCHANGED other_vars
    \/ \E t \in TaskIds : Dump(t) /\ UNCHANGED other_vars
    \/ \E t \in TaskIds : ReturnTrue(t) /\ UNCHANGED other_vars

Spec == Init /\ [][Next]_vars

\* The scanner's first batches with the launcher reading the same file.
ReaderNext ==
    \/ GenerateBatchUpTo(ReaderBatches) /\ UNCHANGED other_vars
    \/ Submit /\ UNCHANGED other_vars
    \/ FinishBatch /\ UNCHANGED other_vars
    \/ \E t \in TaskIds : Start(t) /\ UNCHANGED other_vars
    \/ \E t \in TaskIds : Lookup(t) /\ UNCHANGED other_vars
    \/ \E t \in TaskIds : Status(t) /\ UNCHANGED other_vars
    \/ \E t \in TaskIds : Query(t) /\ UNCHANGED other_vars
    \/ \E t \in TaskIds : AcquireAndLoad(t) /\ UNCHANGED other_vars
    \/ \E t \in TaskIds : OpenForWrite(t) /\ UNCHANGED other_vars
    \/ \E t \in TaskIds : Dump(t) /\ UNCHANGED other_vars
    \/ \E t \in TaskIds : ReturnTrue(t) /\ UNCHANGED other_vars
    \/ LoadExists /\ UNCHANGED other_vars
    \/ LoadRead /\ UNCHANGED other_vars
    \/ LoadAgain /\ UNCHANGED other_vars

SpecReader == Init /\ [][ReaderNext]_vars

\* The scanner, followed for ReaderBatches batches after each start, killed in
\* the middle of a store write and started again.
RestartNext ==
    \/ GenerateBatchUpTo(ReaderBatches) /\ UNCHANGED other_vars
    \/ Submit /\ UNCHANGED other_vars
    \/ FinishBatch /\ UNCHANGED other_vars
    \/ \E t \in TaskIds : Start(t) /\ UNCHANGED other_vars
    \/ \E t \in TaskIds : Lookup(t) /\ UNCHANGED other_vars
    \/ \E t \in TaskIds : Status(t) /\ UNCHANGED other_vars
    \/ \E t \in TaskIds : Query(t) /\ UNCHANGED other_vars
    \/ \E t \in TaskIds : AcquireAndLoad(t) /\ UNCHANGED other_vars
    \/ \E t \in TaskIds : OpenForWrite(t) /\ UNCHANGED other_vars
    \/ \E t \in TaskIds : Dump(t) /\ UNCHANGED other_vars
    \/ \E t \in TaskIds : ReturnTrue(t) /\ UNCHANGED other_vars
    \/ KillDuringWrite /\ UNCHANGED other_vars

SpecRestart == Init /\ [][RestartNext]_vars

\* The scan loop followed for ProgressBatches batches, with a pool of
\* PoolWorkers threads and no store file at the start.
ProgressInit == Init /\ servers_file = Missing

ProgressNext ==
    \/ GenerateBatchUpTo(ProgressBatches) /\ UNCHANGED other_vars
    \/ Submit /\ UNCHANGED other_vars
    \/ FinishBatch /\ UNCHANGED other_vars
    \/ \E t \in TaskIds : StartIn(t, PoolWorkers) /\ UNCHANGED other_vars
    \/ \E t \in TaskIds : Lookup(t) /\ UNCHANGED other_vars
    \/ \E t \in TaskIds : Status(t) /\ UNCHANGED other_vars
    \/ \E t \in TaskIds : Query(t) /\ UNCHANGED other_vars
    \/ \E t \in TaskIds : AcquireAndLoad(t) /\ UNCHANGED other_vars
    \/ \E t \in TaskIds : OpenForWrite(t) /\ UNCHANGED other_vars
    \/ \E t \in TaskIds : Dump(t) /\ UNCHANGED other_vars
    \/ \E t \in TaskIds : ReturnTrue(t) /\ UNCHANGED other_vars

SpecProgress == ProgressInit /\ [][ProgressNext]_vars

\* The scan loop with an operator interrupt arriving at any point.
InterruptNext ==
    \/ GenerateBatch /\ UNCHANGED other_vars
    \/ Submit /\ UNCHANGED other_vars
    \/ FinishBatch /\ UNCHANGED other_vars
    \/ \E t \in TaskIds : Start(t) /\ UNCHANGED other_vars
    \/ \E t \in TaskIds : Lookup(t) /\ UNCHANGED other_vars
    \/ \E t \in TaskIds : Status(t) /\ UNCHANGED other_vars
    \/ \E t \in TaskIds : Query(t) /\ UNCHANGED other_vars
    \/ \E t \in TaskIds : AcquireAndLoad(t) /\ UNCHANGED other_vars
    \/ \E t \in TaskIds : OpenForWrite(t) /\ UNCHANGED other_vars
    \/ \E t \in TaskIds : Dump(t) /\ UNCHANGED other_vars
    \/ \E t \in TaskIds : ReturnTrue(t) /\ UNCHANGED other_vars
    \/ Interrupt /\ UNCHANGED <<ga_vars, r_vars>>
    \/ PrintSummary /\ UNCHANGED <<ga_vars, r_vars>>

SpecInterrupt == Init /\ [][InterruptNext]_vars

\* The same with the scheduling the threads get: the main thread and every
\* worker thread keep being run; nothing makes the operator interrupt.
SpecLive ==
    /\ Init /\ [][InterruptNext]_vars
    /\ WF_vars(scan_batch /\ UNCHANGED other_vars)
    /\ WF_vars(PrintSummary /\ UNCHANGED <<ga_vars, r_vars>>)
    /\ \A t \in TaskIds : WF_vars(query_server(t) /\ UNCHANGED other_vars)

\* Both pools at work: the scanner, with a pool smaller than its batch, and a
\* launcher refreshing, once, a store of NumServers records whose endpoints
\* all give the same answer.
PoolsInit ==
    /\ GaInit /\ ScanInit /\ servers_file = Missing /\ summary = -1
    /\ RefreshInit
    /\ servers_data = [i \in RefreshIndices |-> StoredRecord(1)]
    /\ \E answer \in Answers : net = [a \in RefreshEndpoints |-> answer]

PoolsNext ==
    \/ GenerateBatchUpTo(ReaderBatches) /\ UNCHANGED other_vars
    \/ Submit /\ UNCHANGED other_vars
    \/ FinishBatch /\ UNCHANGED other_vars
    \/ \E t \in TaskIds : StartIn(t, PoolWorkers) /\ UNCHANGED other_vars
    \/ \E t \in TaskIds : Lookup(t) /\ UNCHANGED other_vars
    \/ \E t \in TaskIds : Status(t) /\ UNCHANGED other_vars
    \/ \E t \in TaskIds : Query(t) /\ UNCHANGED other_vars
    \/ \E t \in TaskIds : AcquireAndLoad(t) /\ UNCHANGED other_vars
    \/ \E t \in TaskIds : OpenForWrite(t) /\ UNCHANGED other_vars
    \/ \E t \in TaskIds : Dump(t) /\ UNCHANGED other_vars
    \/ \E t \in TaskIds : ReturnTrue(t) /\ UNCHANGED other_vars
    \/ (r_call = "none" /\ RefreshCall) /\ UNCHANGED <<ga_vars, scan_vars, summary>>
    \/ RefreshSubmit /\ UNCHANGED <<ga_vars, scan_vars, summary>>
    \/ RefreshReturn /\ UNCHANGED <<ga_vars, scan_vars, summary>>
    \/ \E i \in RefreshIndices : CheckStart(i) /\ UNCHANGED <<ga_vars, scan_vars, summary>>
    \/ \E i \in RefreshIndices : CheckProbe(i) /\ UNCHANGED <<ga_vars, scan_vars, summary>>
    \/ \E i \in RefreshIndices : CheckUpdate(i) /\ UNCHANGED <<ga_vars, scan_vars, summary>>
    \/ \E i \in RefreshIndices : CheckProgress(i) /\ UNCHANGED <<ga_vars, scan_vars, summary>>

SpecPools == PoolsInit /\ [][PoolsNext]_vars

\* The launcher's refresh of a loaded store, called twice; the store file was
\* there and readable (load_servers returned) and the scanner is not running.
RefreshSpecInit ==
    /\ GaInit /\ ScanInit /\ json_load_ok(servers_file) /\ summary = -1
    /\ RefreshInit

RefreshNext ==
    \/ RefreshCall /\ UNCHANGED <<ga_vars, scan_vars, summary>>
    \/ RefreshSubmit /\ UNCHANGED <<ga_vars, scan_vars, summary>>
    \/ RefreshReturn /\ UNCHANGED <<ga_vars, scan_vars, summary>>
    \/ \E i \in RefreshIndices : CheckStart(i) /\ UNCHANGED <<ga_vars, scan_vars, summary>>
    \/ \E i \in RefreshIndices : CheckProbe(i) /\ UNCHANGED <<ga_vars, scan_vars, summary>>
    \/ \E i \in RefreshIndices : CheckUpdate(i) /\ UNCHANGED <<ga_vars, scan_vars, summary>>
    \/ \E i \in RefreshIndices : CheckProgress(i) /\ UNCHANGED <<ga_vars, scan_vars, summary>>

SpecRefresh == RefreshSpecInit /\ [][RefreshNext]_vars

\* The address generator alone; the scanner is not started.
AddrInit == Init /\ servers_file = Missing

AddrNext ==
    \/ GaDraw /\ UNCHANGED <<scan_vars, summary, r_vars>>
    \/ GaRetry /\ UNCHANGED <<scan_vars, summary, r_vars>>
    \/ GaReturn /\ UNCHANGED <<scan_vars, summary, r_vars>>
    \/ GaCall /\ UNCHANGED <<scan_vars, summary, r_vars>>

SpecAddr == AddrInit /\ [][AddrNext]_vars

---------------------------------------------------------------------------
(* Claims                                                                  *)

\* The excluded ranges as the specification lists them, each a base address
\* and a prefix length.
ExcludedRanges ==
    { <<<<10, 0, 0, 0>>, 8>>,      <<<<172, 16, 0, 0>>, 12>>,
      <<<<192, 168, 0, 0>>, 16>>,  <<<<127, 0, 0, 0>>, 8>>,
      <<<<169, 254, 0, 0>>, 16>>,  <<<<0, 0, 0, 0>>, 8>>,
      <<<<100, 64, 0, 0>>, 10>>,   <<<<192, 0, 0, 0>>, 24>>,
      <<<<192, 0, 2, 0>>, 24>>,    <<<<192, 88, 99, 0>>, 24>>,
      <<<<198, 18, 0, 0>>, 15>>,   <<<<198, 51, 100, 0>>, 24>>,
      <<<<203, 0, 113, 0>>, 24>>,  <<<<224, 0, 0, 0>>, 4>>,
      <<<<240, 0, 0, 0>>, 4>>,     <<<<255, 255, 255, 255>>, 32>> }

RECURSIVE Pow2(_)
Pow2(n) == IF n = 0 THEN 1 ELSE 2 * Pow2(n - 1)

\* An address as its upper and lower 16 bits, and membership of a.b.c.d/len by
\* comparing the first len bits.
Hi16(ip) == ip[1] * 256 + ip[2]
Lo16(ip) == ip[3] * 256 + ip[4]
InCidr(ip, base, len) ==
    IF len <= 16
    THEN Hi16(ip) \div Pow2(16 - len) = Hi16(base) \div Pow2(16 - len)
    ELSE /\ Hi16(ip) = Hi16(base)
         /\ Lo16(ip) \div Pow2(32 - len) = Lo16(base) \div Pow2(32 - len)

InExcludedRange(ip) == \E r \in ExcludedRanges : InCidr(ip, r[1], r[2])

\* C1: every endpoint get_random_address returns has an address outside all the
\* excluded ranges (private, loopback, link-local, IANA special-purpose,
\* multicast, reserved, broadcast).
C1_GeneratedAddressNotExcluded ==
    ga_pc = "returned" => ~InExcludedRange(ga_result.ip)

\* An address right after 172.16.0.0/12 and one right before it are returned.
C1_Witness ==
    /\ ga_pc = "returned"
    /\ ga_result.ip[1] = 172
    /\ ga_result.ip[2] \in {15, 32}
    /\ ga_result.port = DefaultPort

\* C2: batch barrier.  Whenever a probe of a later batch has been submitted,
\* every probe of every earlier batch has returned.
C2_BatchBarrier ==
    \A t, u \in TaskIds :
        (BatchOf(t) < BatchOf(u) /\ task[u].pc # "none") => Returned(t)

\* A probe of the second batch is running.
C2_Witness ==
    \E u \in TaskIds : BatchOf(u) = 2 /\ Running(u)

\* The records of the store as the scanner would load them.
StoredServers == load_or_create_json(servers_file).servers

\* C3: dedupe invariant.  The persisted store holds at most one record per
\* endpoint address.
C3_AtMostOneRecordPerEndpoint ==
    \A i, j \in DOMAIN StoredServers :
        i # j => StoredServers[i].address # StoredServers[j].address

\* A probe between loading the store and finishing its write-back; a probe
\* whose status or query attempt succeeded; the batch being scanned.
InReadModifyWrite(t) == task[t].pc \in {"open", "dump"}
Found(t) == task[t].status = "ok" \/ task[t].query = "ok"
CurrentBatch == batch_counter + 1
RecordsOf(b) == {task[t].server_info : t \in {u \in TasksOf(b) : task[u].result = "True"}}
CountIn(seq, r) == Cardinality({i \in DOMAIN seq : seq[i] = r})

\* C4: no lost update.  The read-modify-write of the store happens under
\* file_lock with at most one probe inside it, and once all probes of a batch
\* have returned, each success having written its record, the store holds what
\* it held when the batch began followed by one record per successful probe.
C4_NoLostUpdate ==
    /\ \A t \in TaskIds : InReadModifyWrite(t) => file_lock = t
    /\ \A t, u \in TaskIds : InReadModifyWrite(t) /\ InReadModifyWrite(u) => t = u
    /\ ( /\ main_pc = "wait"
         /\ BatchDrained(CurrentBatch)
         /\ \A t \in TasksOf(CurrentBatch) : Found(t) => task[t].result = "True" )
       => /\ Len(StoredServers) = Len(batch_base) + CountTrue(CurrentBatch)
          /\ SubSeq(StoredServers, 1, Len(batch_base)) = batch_base
          /\ \A r \in RecordsOf(CurrentBatch) :
                CountIn(StoredServers, r) = CountIn(batch_base, r)
                    + Cardinality({t \in TasksOf(CurrentBatch) :
                                     task[t].result = "True" /\ task[t].server_info = r})

\* Two probes of one batch have both succeeded and returned, on top of a store
\* that already held a record.
C4_Witness ==
    /\ main_pc = "wait"
    /\ BatchDrained(CurrentBatch)
    /\ CountTrue(CurrentBatch) >= 2
    /\ Len(batch_base) >= 1
    /\ Len(StoredServers) = Len(batch_base) + CountTrue(CurrentBatch)

\* C5: write-through.  Whenever a probe has returned True, a record for its
\* endpoint is present in the persisted store.
C5_WriteThrough ==
    \A t \in TaskIds :
        task[t].result = "True" =>
            \E i \in DOMAIN StoredServers : StoredServers[i] = task[t].server_info

\* C6: fallback ordering.  In every probe status is attempted at most once and
\* first, query is attempted at most once, and query is attempted if and only
\* if the status attempt failed.
C6_FallbackOrdering ==
    \A t \in TaskIds :
        /\ task[t].status_calls <= 1
        /\ task[t].query_calls <= 1
        /\ (task[t].status # "none") <=> (task[t].status_calls = 1)
        /\ task[t].query_calls = 1 => task[t].status = "fail"
        /\ (task[t].status = "fail" /\ task[t].pc # "query")
              => task[t].query_calls = 1

\* A probe whose status attempt failed and whose query attempt succeeded has
\* returned True.
C6_Witness ==
    \E t \in TaskIds :
        /\ task[t].status = "fail" /\ task[t].query = "ok"
        /\ task[t].result = "True"

\* C7: found condition.  A probe that has returned reported success if and
\* only if its status attempt or its query attempt succeeded.
C7_FoundCondition ==
    \A t \in TaskIds :
        task[t].pc = "done" => ((task[t].result = "True") <=> Found(t))

\* A step of a probe that is inside query_server.
ProbeStep == \E t \in TaskIds : Running(t) /\ task'[t] # task[t]

\* C8: the probe operation leaves the result store unchanged (the write is the
\* caller's, after the probe has returned).
C8_ProbeLeavesStoreUnchanged ==
    [][ProbeStep => servers_file' = servers_file]_vars

\* C8 as amended: every change of the store is a step of a probe that is still
\* inside query_server, has built a record from a successful status or query
\* attempt and holds file_lock; the caller (scan_batch, the scan loop) never
\* writes the store.
C8_StoreWrittenInsideProbe ==
    [][servers_file' # servers_file =>
          /\ UNCHANGED main_vars
          /\ \E t \in TaskIds :
                /\ InReadModifyWrite(t)
                /\ task'[t] # task[t]
                /\ file_lock = t
                /\ Found(t)
                /\ task[t].server_info # NoInfo
                /\ task[t].result = "none"]_vars

\* A probe has written its record to the store and has not returned yet.
C8_Witness ==
    \E t \in TaskIds :
        /\ task[t].pc = "print"
        /\ task[t].result = "none"
        /\ servers_file = Json(task[t].data)
        /\ main_pc = "wait"

LoadFinished == l_pc \in {"loaded", "exit1"}
Unreadable(f) == f.kind \in {"missing", "corrupt"}

\* C9: loading the store when the file is missing or holds invalid JSON yields
\* the empty store and never terminates the process, in the scanner
\* (load_or_create_json) and in the launcher (load_servers).
C9_LoadYieldsEmptyStore ==
    /\ \A t \in TaskIds :
          (task[t].pc = "open" /\ Unreadable(task[t].loaded))
             => task[t].data = AppendRecord(EmptyStore, task[t].server_info)
    /\ (LoadFinished /\ Unreadable(l_seen))
          => (l_pc = "loaded" /\ l_data = EmptyStore)

\* C9 as amended: the scanner's load_or_create_json yields the empty store on a
\* missing or invalid file; the launcher's load_servers prints an error and
\* terminates the process with exit status 1 on either, and returns the parsed
\* store otherwise.
C9_ScannerEmptyLauncherExits ==
    /\ \A t \in TaskIds :
          (task[t].pc = "open" /\ Unreadable(task[t].loaded))
             => task[t].data = AppendRecord(EmptyStore, task[t].server_info)
    /\ (LoadFinished /\ Unreadable(l_seen))
          => (l_pc = "exit1" /\ l_data = NoData)
    /\ (LoadFinished /\ ~Unreadable(l_seen))
          => (l_pc = "loaded" /\ l_data = json_load(l_seen))

\* The launcher has exited on an invalid file while a probe of the scanner has
\* loaded the empty store from one.
C9_Witness ==
    /\ l_pc = "exit1"
    /\ l_seen.kind = "corrupt"
    /\ \E t \in TaskIds : task[t].pc = "open" /\ Unreadable(task[t].loaded)

\* C10: a read of the store by the launcher that runs concurrently with an
\* append by the scanner sees either the store before the append or the store
\* after it.
C10_ReaderSeesBeforeOrAfter ==
    LoadFinished => (l_seen = l_before \/ l_seen = l_after)

---------------------------------------------------------------------------
(* Claims about refresh_server_data, checked under SpecRefresh             *)

\* refresh_server_data has returned at least once and is not running
RefreshReturned == r_pc = "idle" /\ r_call # "none"

\* the answer the endpoint of a record gives
AnswerOf(server) == net[server.address]

\* the places the records of the input took in the returned list
Placements == Permutations(1..Len(r_input))

\* C11: every record whose refresh probe failed is still in the returned list,
\* with players_online = 0 and every other field (address, version,
\* description, players_max, timestamp) as it was when the call began.
C11_FailedProbeZeroesPlayersOnly ==
    RefreshReturned =>
        /\ Len(servers_data) = Len(r_input)
        /\ \E p \in Placements :
              \A i \in 1..Len(r_input) :
                 /\ servers_data[p[i]].address = r_input[i].address
                 /\ ~AnswerOf(r_input[i]).up =>
                       servers_data[p[i]] = [r_input[i] EXCEPT !.players_online = 0]

C11_Witness ==
    /\ RefreshReturned /\ r_call = "first"
    /\ \E i \in 1..Len(r_input) :
          ~AnswerOf(r_input[i]).up /\ r_input[i].players_online # 0
    /\ \E i \in 1..Len(r_input) : AnswerOf(r_input[i]).up

\* C12: the list refresh_server_data returned is in non-increasing order of
\* players_online, whatever the probes answered and in whatever order the
\* worker threads finished.
C12_ReturnedSortedDescending ==
    RefreshReturned =>
        \A i, j \in 1..Len(servers_data) :
           i < j => servers_data[i].players_online >= servers_data[j].players_online

\* the sort had to move a record: the last input record has the most players
C12_Witness ==
    /\ RefreshReturned /\ r_call = "first"
    /\ AnswerOf(r_input[Len(r_input)]).players_online = 9
    /\ \E i \in 1..(Len(r_input) - 1) : AnswerOf(r_input[i]).players_online < 9
    /\ servers_data[1].players_online = 9

\* C13: with every endpoint answering the second call as it answered the
\* first, the second call returns the list it was given: the same records with
\* the same field values in the same order.
C13_RefreshIdempotent ==
    (RefreshReturned /\ r_call = "second") => servers_data = r_input

\* the second call has returned a list in which two records have equal counts
C13_Witness ==
    /\ RefreshReturned /\ r_call = "second"
    /\ \E i, j \in 1..Len(servers_data) :
          /\ i < j
          /\ servers_data[i].players_online = servers_data[j].players_online
          /\ servers_data[i].address # servers_data[j].address
    /\ \E i, j \in 1..Len(servers_data) :
          servers_data[i].players_online > servers_data[j].players_online

\* C19: after a refresh every record, reachable or not, carries the time of
\* the refresh as its timestamp.
C19_RefreshStampsEveryRecord ==
    RefreshReturned =>
        \A i \in 1..Len(servers_data) : servers_data[i].timestamp = "refresh time"

\* C20 as stated: a record whose refresh probe succeeded has the players_online
\* the probe reported, and its address, players_max, version and description
\* are the stored ones.
C20_SuccessChangesPlayersOnlineOnly ==
    RefreshReturned =>
        \E p \in Placements :
           \A i \in 1..Len(r_input) :
              /\ servers_data[p[i]].address = r_input[i].address
              /\ AnswerOf(r_input[i]).up =>
                    /\ servers_data[p[i]].players_online = AnswerOf(r_input[i]).players_online
                    /\ servers_data[p[i]].players_max = r_input[i].players_max
                    /\ servers_data[p[i]].version = r_input[i].version
                    /\ servers_data[p[i]].description = r_input[i].description

\* C20, amended: a record whose refresh probe succeeded has the players_online
\* and the players_max the probe reported; its address, version and
\* description are the stored ones.
C20_SuccessTakesBothCounts ==
    RefreshReturned =>
        \E p \in Placements :
           \A i \in 1..Len(r_input) :
              /\ servers_data[p[i]].address = r_input[i].address
              /\ AnswerOf(r_input[i]).up =>
                    /\ servers_data[p[i]].players_online = AnswerOf(r_input[i]).players_online
                    /\ servers_data[p[i]].players_max = AnswerOf(r_input[i]).players_max
                    /\ servers_data[p[i]].version = r_input[i].version
                    /\ servers_data[p[i]].description = r_input[i].description

\* a probe succeeded and reported a players_max other than the stored one
C20_Witness ==
    /\ RefreshReturned /\ r_call = "first"
    /\ \E i \in 1..Len(r_input) :
          /\ AnswerOf(r_input[i]).up
          /\ AnswerOf(r_input[i]).players_max # r_input[i].players_max

---------------------------------------------------------------------------
(* Claims about the operator's interrupt, checked under SpecInterrupt      *)

Interrupted == main_pc \in {"interrupted", "stopped"}

\* the probes of this run that returned True
RunSuccesses == total_servers_found + CountTrue(CurrentBatch)

\* C14: once the interrupt is observed nothing more is submitted and no batch
\* is started or counted, and the summary is printed and the script ends only
\* when every submitted probe has returned: none is queued or running then.
C14_InterruptDrainsThenStops ==
    /\ [][Interrupted =>
            /\ submitted' = submitted
            /\ batch_counter' = batch_counter
            /\ addresses' = addresses
            /\ \A t \in TaskIds : task[t].pc = "none" => task'[t].pc = "none"]_vars
    /\ [](main_pc = "stopped" =>
            \A t \in TaskIds : task[t].pc \in {"none", "done", "collected"})

\* the interrupt has arrived with one probe running and another still queued
C14_Witness ==
    /\ main_pc = "interrupted"
    /\ \E t \in TasksOf(CurrentBatch) : Running(t)
    /\ \E t \in TasksOf(CurrentBatch) : task[t].pc = "queued"

\* C15: the total of the summary line is the number of probes that returned
\* True during the run, those of the batch the interrupt arrived in included.
C15_SummaryCountsEverySuccess ==
    main_pc = "stopped" => summary = RunSuccesses

\* C17: the loop ends only by the operator's interrupt: whatever the probes
\* answer and whichever store reads and writes fail, every batch the loop is
\* in drains and is counted, and the next one is started, unless the interrupt
\* arrives first.
C17_LoopEndsOnlyOnInterrupt ==
    \A b \in 0..(MaxBatches - 1) :
       (batch_counter = b /\ ~Interrupted) ~> (batch_counter = b + 1 \/ Interrupted)

\* a second batch in which a probe found a server and failed to store it has
\* drained
C17_Witness ==
    /\ batch_counter = 1
    /\ main_pc = "wait"
    /\ BatchDrained(CurrentBatch)
    /\ \E t \in TasksOf(CurrentBatch) : Found(t) /\ task[t].result = "False"
    /\ servers_file = Corrupt

---------------------------------------------------------------------------
(* Claims about the two worker pools, checked under SpecPools              *)

\* C16: a probe never raises to its caller: whichever of lookup, status,
\* query, store read, open and dump fail, the future of a returned
\* query_server holds True or False, never an exception, and the status
\* get_server_status hands to check_server carries an online flag that is True
\* or False.
C16_ProbeNeverRaises ==
    /\ \A t \in TaskIds : task[t].pc = "done" => task[t].result \in {"True", "False"}
    /\ \A i \in RefreshIndices :
          r_task[i].pc \in {"update", "progress", "done"} =>
             r_task[i].status.online \in {"True", "False"}

\* a probe found a server and failed in the store, another failed before
\* finding one, and a refresh probe failed
C16_Witness ==
    /\ \E t \in TaskIds : task[t].pc = "done" /\ Found(t) /\ task[t].result = "False"
    /\ \E t \in TaskIds : task[t].pc = "done" /\ ~Found(t) /\ task[t].result = "False"
    /\ \E i \in RefreshIndices :
          r_task[i].pc = "done" /\ r_task[i].status.online = "False"

\* C18: at every moment the probes executing in the scan pool are at most its
\* max_workers (200 in search.py) and those executing in the refresh pool at
\* most its max_workers (20 in launcher.py), however many were submitted.
C18_BoundedConcurrency ==
    /\ NumRunning <= PoolWorkers
    /\ NumChecksRunning <= RefreshWorkers

\* both pools are full and each has a submitted probe waiting in its queue
C18_Witness ==
    /\ NumRunning = PoolWorkers
    /\ \E t \in TaskIds : task[t].pc = "queued"
    /\ NumChecksRunning = RefreshWorkers
    /\ \E i \in RefreshIndices : r_task[i].pc = "queued"

---------------------------------------------------------------------------
(* Further claims about the interrupt, checked under SpecInterrupt         *)

\* C21: after the interrupt only the probes already executing run on: a probe
\* that was submitted and is still waiting in the executor's queue is not
\* started.
C21_QueuedProbesNotStartedAfterInterrupt ==
    [][Interrupted =>
          \A t \in TaskIds : task[t].pc = "queued" => task'[t].pc = "queued"]_vars

---------------------------------------------------------------------------
(* Further claims about the probes and the store                           *)

\* the messages about the protocol attempts, which say nothing of the store
ProtocolErrors == {StatusError, QueryError}

\* C22: a probe whose status or query succeeded and whose store write failed
\* has printed a message about that failure, something other than the errors
\* of its protocol attempts; it does not end as a plain False with nothing on
\* the console that tells of the lost record.
C22_StoreFailureIsDiagnosed ==
    [][\A t \in TaskIds :
          (InReadModifyWrite(t) /\ task'[t].pc = "done" /\ task'[t].result = "False") =>
             \E k \in 1..Len(task'[t].console) :
                task'[t].console[k] \notin ProtocolErrors]_vars

\* C23: a record that is in the persisted store stays there: every append
\* that completes leaves the records the store last held unchanged and in
\* order and adds one record at the end, also when a write was cut short by an
\* abrupt stop and the scanner was started again in between.
C23_AppendKeepsStoredRecords ==
    [][(servers_file' # servers_file /\ json_load_ok(servers_file')) =>
          /\ Len(servers_file'.servers) = Len(persisted) + 1
          /\ SubSeq(servers_file'.servers, 1, Len(persisted)) = persisted]_vars

---------------------------------------------------------------------------
(* Claims about the progress lines, checked under SpecProgress             *)

\* C24: a progress line is printed exactly when the batch just completed is
\* the 3rd, 6th, 9th, ...; the address count of the line is the number of
\* endpoints dispatched up to then and its found count the number of probes
\* that returned True in the completed batches, the one just drained included.
C24_ProgressEveryThirdBatch ==
    [][/\ (progress_log' # progress_log) <=>
             (batch_counter' = batch_counter + 1 /\ batch_counter' % 3 = 0)
       /\ (progress_log' # progress_log) =>
             /\ Front(progress_log') = progress_log
             /\ Last(progress_log').addresses =
                   Cardinality({t \in TaskIds : task'[t].pc # "none"})
             /\ Last(progress_log').found =
                   total_servers_found + CountTrue(CurrentBatch)]_vars

\* the third batch is complete, its line is printed and reports a server found
C24_Witness ==
    /\ batch_counter = ProgressEvery
    /\ Len(progress_log) = 1
    /\ progress_log[1].found >= 1
    /\ progress_log[1].addresses = ProgressEvery * BatchSize

---------------------------------------------------------------------------
(* Further claims about refresh_server_data, checked under SpecRefresh     *)

\* the checks that have left the counter_lock block
ChecksCounted == {i \in RefreshIndices : r_task[i].pc = "done"}

\* C25: while refresh_server_data runs, whenever no thread is inside the
\* counter_lock block, responsive_servers + offline_servers equals
\* progress_dict["completed"], which is the number of records whose check has
\* been counted (each once) and at most total_servers; when the function
\* returns, all of them equal total_servers, the number of records.
C25_RefreshAccounting ==
    /\ (r_call # "none" /\ counter_lock = 0) =>
          /\ responsive_servers + offline_servers = progress_completed
          /\ progress_completed = Cardinality(ChecksCounted)
          /\ responsive_servers =
                Cardinality({i \in ChecksCounted : r_task[i].status.online = "True"})
          /\ progress_completed <= total_servers
    /\ RefreshReturned =>
          /\ responsive_servers + offline_servers = total_servers
          /\ progress_completed = total_servers
          /\ total_servers = Len(servers_data)

\* the refresh has returned having counted reachable and unreachable servers
C25_Witness ==
    /\ RefreshReturned
    /\ responsive_servers >= 1
    /\ offline_servers >= 1
    /\ responsive_servers + offline_servers = NumServers

---------------------------------------------------------------------------
(* Further claims about the address generator, checked under SpecAddr      *)

\* the address of the draw being checked
Drawn == <<first, second, third, fourth>>

\* C26: the endpoints get_random_address can return are exactly the addresses
\* outside the excluded ranges, with port 25565: a drawn address is rejected
\* if and only if it is excluded, and can be returned otherwise, always with
\* port 25565; and every address whose first octet the generator never draws
\* is excluded, so leaving those first octets out removes no permitted address.
C26_GeneratorCoverage ==
    /\ ga_pc = "check" =>
          /\ is_reserved_ip(first, second, third, fourth) <=> InExcludedRange(Drawn)
          /\ ~InExcludedRange(Drawn) => ENABLED GaReturn
    \* (stated once for each choice of the other three octets)
    /\ (ga_pc = "check" /\ first = FirstLo) =>
          \A f \in (0..255) \ FirstOctets :
             InExcludedRange(<<f, second, third, fourth>>)
    /\ ga_pc = "returned" => ga_result.port = 25565

\* the highest first octet that is not multicast was drawn and returned
C26_Witness ==
    /\ ga_pc = "returned"
    /\ ga_result.ip[1] = 223
    /\ ga_result.port = 25565

---------------------------------------------------------------------------
(* Further claims about the store and the refresh                          *)

\* C27: whenever the store file holds a store (after every completed append),
\* its total_count is the number of entries of its servers list.
C27_TotalCountIsLength ==
    json_load_ok(servers_file) => servers_file.total_count = Len(servers_file.servers)

\* two appends have completed in a batch that began with no record stored
C27_Witness ==
    /\ json_load_ok(servers_file)
    /\ Len(servers_file.servers) = 2
    /\ Len(batch_base) = 0
    /\ servers_file.total_count = 2

\* C28: refresh_server_data neither adds nor removes a record, the addresses
\* of the list it returns being those of the list it was given in some order,
\* and it never writes the store file.
C28_RefreshKeepsRecordsAndStore ==
    /\ [](RefreshReturned =>
            /\ Len(servers_data) = Len(r_input)
            /\ \E p \in Placements :
                  \A i \in 1..Len(r_input) :
                     servers_data[p[i]].address = r_input[i].address)
    /\ [][servers_file' = servers_file]_vars

\* the refresh has returned the records of three endpoints in another order,
\* one of them unreachable, with the store file in place
C28_Witness ==
    /\ RefreshReturned /\ r_call = "first"
    /\ json_load_ok(servers_file)
    /\ {r_input[i].address : i \in 1..Len(r_input)} = RefreshEndpoints
    /\ \E i \in 1..Len(r_input) : servers_data[i].address # r_input[i].address
    /\ \E i \in 1..Len(servers_data) : servers_data[i].players_online = 0

====
